---- MODULE Spec2Model ----
(***************************************************************************)
(* Model of mukti-bin's redirect generator (mukti-bin/src/redirects.rs):   *)
(* generate_redirects, append_redirect_list, WildcardStore::build and the  *)
(* Display implementations that render the _redirects file.                *)
(*                                                                         *)
(* A string is a sequence of one-character strings, so that split_once,    *)
(* split, join and trim_end_matches are computed, not assumed.             *)
(***************************************************************************)
EXTENDS Integers, Sequences, FiniteSets, TLC

\* ------------------------------------------------------------------ bounds
\* Ranges of the project are the majors 1..MaxRanges.
MaxRanges == 2
\* Every range holds between 1 and MaxVersions versions (minors 0, 1, ...).
MaxVersions == 2
\* release_json.projects holds between 0 and MaxProjects projects.
MaxProjects == 2
\* WildcardStore::build is also applied to every redirect list of at most
\* MaxLen redirects drawn from Pool.
MaxLen == 4

\* ----------------------------------------------------------------- strings
Str_release == <<"r", "e", "l", "e", "a", "s", "e">>
Str_latest == <<"l", "a", "t", "e", "s", "t">>
VERSION_PLACEHOLDER == <<":", "v", "e", "r", "s", "i", "o", "n">>

\* Byte value of the characters the model uses (Rust compares str bytewise).
Byte(c) ==
    CASE c = " " -> 32
      [] c = "#" -> 35
      [] c = "-" -> 45
      [] c = "." -> 46
      [] c = "/" -> 47
      [] c = "0" -> 48
      [] c = "1" -> 49
      [] c = "2" -> 50
      [] c = "3" -> 51
      [] c = "4" -> 52
      [] c = "5" -> 53
      [] c = "6" -> 54
      [] c = "7" -> 55
      [] c = "8" -> 56
      [] c = "9" -> 57
      [] c = ":" -> 58
      [] c = "a" -> 97
      [] c = "b" -> 98
      [] c = "d" -> 100
      [] c = "e" -> 101
      [] c = "g" -> 103
      [] c = "h" -> 104
      [] c = "i" -> 105
      [] c = "l" -> 108
      [] c = "n" -> 110
      [] c = "o" -> 111
      [] c = "q" -> 113
      [] c = "r" -> 114
      [] c = "s" -> 115
      [] c = "t" -> 116
      [] c = "v" -> 118
      [] c = "x" -> 120
      [] c = "y" -> 121
      [] c = "z" -> 122

DigitChar(d) ==
    CASE d = 0 -> "0" [] d = 1 -> "1" [] d = 2 -> "2" [] d = 3 -> "3"
      [] d = 4 -> "4" [] d = 5 -> "5" [] d = 6 -> "6" [] d = 7 -> "7"
      [] d = 8 -> "8" [] d = 9 -> "9"

\* Decimal rendering of a natural number ({} of an integer).
RECURSIVE Decimal(_)
Decimal(n) ==
    IF n < 10 THEN <<DigitChar(n)>>
    ELSE Decimal(n \div 10) \o <<DigitChar(n % 10)>>

\* Index of the first occurrence of pat in s, 0 when there is none.
Find(s, pat) ==
    LET idx == {i \in 1..(Len(s) - Len(pat) + 1) :
                    SubSeq(s, i, i + Len(pat) - 1) = pat}
    IN  IF idx = {} THEN 0 ELSE CHOOSE i \in idx : \A j \in idx : i <= j

\* str::split_once: <<found, start, end>> around the first occurrence.
SplitOnce(s, pat) ==
    LET i == Find(s, pat)
    IN  IF i = 0 THEN <<FALSE, <<>>, <<>>>>
        ELSE <<TRUE, SubSeq(s, 1, i - 1), SubSeq(s, i + Len(pat), Len(s))>>

\* Split that drops the empty fragments.
RECURSIVE SplitNonEmpty(_, _)
SplitNonEmpty(s, pat) ==
    LET i == Find(s, pat)
    IN  IF i = 0 THEN (IF Len(s) = 0 THEN <<>> ELSE <<s>>)
        ELSE (IF i = 1 THEN <<>> ELSE <<SubSeq(s, 1, i - 1)>>)
                 \o SplitNonEmpty(SubSeq(s, i + Len(pat), Len(s)), pat)

\* str::split: the fragments between the non-overlapping occurrences of pat,
\* empty fragments included.
RECURSIVE Split(_, _)
Split(s, pat) ==
    LET i == Find(s, pat)
    IN  IF i = 0 THEN <<s>>
        ELSE <<SubSeq(s, 1, i - 1)>>
                 \o Split(SubSeq(s, i + Len(pat), Len(s)), pat)

\* [&str]::join
RECURSIVE Join(_, _)
Join(parts, sep) ==
    IF Len(parts) = 0 THEN <<>>
    ELSE IF Len(parts) = 1 THEN parts[1]
    ELSE parts[1] \o sep \o Join(Tail(parts), sep)

\* str::trim_end_matches(c)
RECURSIVE TrimEndMatches(_, _)
TrimEndMatches(s, c) ==
    IF Len(s) > 0 /\ s[Len(s)] = c
    THEN TrimEndMatches(SubSeq(s, 1, Len(s) - 1), c)
    ELSE s

\* Ordering of str: -1, 0 or 1, bytewise lexicographic.
RECURSIVE StrCmp(_, _)
StrCmp(a, b) ==
    IF Len(a) = 0 THEN (IF Len(b) = 0 THEN 0 ELSE -1)
    ELSE IF Len(b) = 0 THEN 1
    ELSE IF Byte(a[1]) < Byte(b[1]) THEN -1
    ELSE IF Byte(a[1]) > Byte(b[1]) THEN 1
    ELSE StrCmp(Tail(a), Tail(b))

\* Ordering of tuples of numbers (semver::Version, VersionRange payloads).
RECURSIVE NumCmp(_, _)
NumCmp(a, b) ==
    IF Len(a) = 0 THEN (IF Len(b) = 0 THEN 0 ELSE -1)
    ELSE IF Len(b) = 0 THEN 1
    ELSE IF a[1] < b[1] THEN -1
    ELSE IF a[1] > b[1] THEN 1
    ELSE NumCmp(Tail(a), Tail(b))

\* ------------------------------------------------------------ value types
\* enum RedirectKind, in declaration order.
Release == 0
Location == 1
Alias == 2

\* enum RedirectFlavor
Netlify == "Netlify"
Cloudflare == "Cloudflare"

\* enum RedirectVersion: tag is the variant's position, n its payload.
Latest == [tag |-> 0, n |-> <<>>]
Range(r) == [tag |-> 1, n |-> <<r>>]
Version(v) == [tag |-> 2, n |-> v]

\* Display of semver::Version (major.minor.patch).
SemverToString(v) ==
    Decimal(v[1]) \o <<".">> \o Decimal(v[2]) \o <<".">> \o Decimal(v[3])

\* Display of mukti_metadata::VersionRange: a major range prints its number.
RangeToString(r) == Decimal(r[1])

\* impl Display for RedirectVersion
VersionToString(rv) ==
    IF rv.tag = 0 THEN Str_latest
    ELSE IF rv.tag = 1 THEN RangeToString(rv.n)
    ELSE SemverToString(rv.n)

\* #[derive(Ord)] for RedirectVersion: variant first, then payload.
VersionCmp(a, b) ==
    IF a.tag < b.tag THEN -1
    ELSE IF a.tag > b.tag THEN 1
    ELSE NumCmp(a.n, b.n)

\* #[derive(Ord)] for Redirect: version, kind, from, to, code.
RedirectCmp(a, b) ==
    LET cv == VersionCmp(a.version, b.version)
        cf == StrCmp(a.from, b.from)
        ct == StrCmp(a.to, b.to)
    IN  IF cv # 0 THEN cv
        ELSE IF a.kind < b.kind THEN -1
        ELSE IF a.kind > b.kind THEN 1
        ELSE IF cf # 0 THEN cf
        ELSE IF ct # 0 THEN ct
        ELSE IF a.code < b.code THEN -1
        ELSE IF a.code > b.code THEN 1
        ELSE 0

\* Sort key of a wildcard: (kind, from_components).
WildcardCmp(a, b) ==
    LET c1 == StrCmp(a.from_components[1], b.from_components[1])
    IN  IF a.kind < b.kind THEN -1
        ELSE IF a.kind > b.kind THEN 1
        ELSE IF c1 # 0 THEN c1
        ELSE StrCmp(a.from_components[2], b.from_components[2])

\* impl Display for Redirect
RedirectLine(r) == r.from \o <<" ">> \o r.to \o <<" ">> \o Decimal(r.code)

\* impl Display for Wildcard
WildcardLine(w) ==
    w.from_components[1] \o VERSION_PLACEHOLDER \o w.from_components[2]
        \o <<" ">> \o Join(w.to_components, VERSION_PLACEHOLDER)
        \o <<" ", "3", "0", "2">>

\* ------------------------------------------------------------- enumerator
\* The Alias redirects of one location: aliases.iter().filter(..), in order.
RECURSIVE AliasRedirects(_, _, _, _)
AliasRedirects(version, location, aliases, prefix) ==
    IF Len(aliases) = 0 THEN <<>>
    ELSE LET alias == Head(aliases)
             rest == AliasRedirects(version, location, Tail(aliases), prefix)
         IN  IF alias.target = location.target /\ alias.format = location.format
             THEN <<[version |-> version, kind |-> Alias,
                     from |-> prefix \o <<"/">> \o VersionToString(version)
                                \o <<"/">> \o alias.alias,
                     to |-> location.url, code |-> 302]>> \o rest
             ELSE rest

\* The loop over version_data.locations.
RECURSIVE LocationRedirects(_, _, _, _)
LocationRedirects(version, locations, aliases, prefix) ==
    IF Len(locations) = 0 THEN <<>>
    ELSE LET location == Head(locations)
         IN  <<[version |-> version, kind |-> Location,
                from |-> prefix \o <<"/">> \o VersionToString(version)
                           \o <<"/">> \o location.target \o <<".">>
                           \o location.format,
                to |-> location.url, code |-> 302]>>
             \o AliasRedirects(version, location, aliases, prefix)
             \o LocationRedirects(version, Tail(locations), aliases, prefix)

\* fn append_redirect_list: the redirects it pushes, in order.
AppendRedirectList(version, version_data, aliases, prefix) ==
    <<[version |-> version, kind |-> Release,
       from |-> prefix \o <<"/">> \o VersionToString(version)
                  \o <<"/">> \o Str_release,
       to |-> version_data.release_url, code |-> 302]>>
    \o LocationRedirects(version, version_data.locations, aliases, prefix)

\* project.ranges[range]
RangeData(project, range) ==
    LET i == CHOOSE i \in DOMAIN project.ranges : project.ranges[i].range = range
    IN  project.ranges[i]

\* data.versions[&data.latest]
LatestVersionData(data) ==
    LET i == CHOOSE i \in DOMAIN data.versions :
                 data.versions[i].version = data.latest
    IN  data.versions[i]

\* for (version, version_data) in &data.versions
RECURSIVE VersionRedirects(_, _, _)
VersionRedirects(versions, aliases, prefix) ==
    IF Len(versions) = 0 THEN <<>>
    ELSE AppendRedirectList(Version(Head(versions).version), Head(versions),
                            aliases, prefix)
         \o VersionRedirects(Tail(versions), aliases, prefix)

\* The iteration without the is_prerelease test.
RangeRedirectsAlways(data, aliases, prefix) ==
    AppendRedirectList(Range(data.range), LatestVersionData(data), aliases, prefix)
    \o VersionRedirects(data.versions, aliases, prefix)

\* The body of one iteration of for (range, data) in &project.ranges.
RangeRedirects(data, aliases, prefix) ==
    (IF ~data.is_prerelease
     THEN AppendRedirectList(Range(data.range), LatestVersionData(data),
                             aliases, prefix)
     ELSE <<>>)
    \o VersionRedirects(data.versions, aliases, prefix)

RECURSIVE RangesRedirects(_, _, _)
RangesRedirects(ranges, aliases, prefix) ==
    IF Len(ranges) = 0 THEN <<>>
    ELSE RangeRedirects(Head(ranges), aliases, prefix)
         \o RangesRedirects(Tail(ranges), aliases, prefix)

\* The redirect list generate_redirects builds for a project.
EnumerateRedirects(project, aliases, prefix) ==
    (IF Len(project.latest) = 1
     THEN AppendRedirectList(
              Latest, LatestVersionData(RangeData(project, project.latest[1])),
              aliases, prefix)
     ELSE <<>>)
    \o RangesRedirects(project.ranges, aliases, prefix)

\* -------------------------------------------------------- WildcardStore
\* A HashMap is a sequence of entries [key, value] without repeated keys;
\* the position of an entry has no meaning to the program.

\* map.entry(key).or_default(): the position of key, 0 when absent.
EntryIndex(map, key) ==
    IF \E i \in DOMAIN map : map[i].key = key
    THEN CHOOSE i \in DOMAIN map : map[i].key = key
    ELSE 0

\* to_maps.entry((kind, to_components)).or_default().push(redirect)
PushRedirect(to_maps, tk, r) ==
    LET i == EntryIndex(to_maps, tk)
    IN  IF i = 0 THEN Append(to_maps, [key |-> tk, value |-> <<r>>])
        ELSE [to_maps EXCEPT ![i].value = Append(@, r)]

\* url_matches.entry((from_start, from_end)).or_default() ... .push(redirect)
PushMatch(url_matches, fk, tk, r) ==
    LET i == EntryIndex(url_matches, fk)
    IN  IF i = 0
        THEN Append(url_matches, [key |-> fk, value |-> PushRedirect(<<>>, tk, r)])
        ELSE [url_matches EXCEPT ![i].value = PushRedirect(@, tk, r)]

\* A check that lets Range through as well.
IsNotLatest(r) == r.version.tag # 0

\* matches!(redirect.version, RedirectVersion::Version(_))
IsFullVersion(r) == r.version.tag = 2

\* One iteration of the first loop of build on redirect r.
FirstLoopStep(acc, r) ==
    IF ~IsFullVersion(r)
    THEN [acc EXCEPT !.unmatched = Append(@, r)]
    ELSE LET version_str == VersionToString(r.version)
             so == SplitOnce(r.from, version_str)
         IN  IF ~so[1]
             THEN [acc EXCEPT !.unmatched = Append(@, r)]
             ELSE [acc EXCEPT !.url_matches =
                       PushMatch(@, <<so[2], so[3]>>,
                                 <<r.kind, Split(r.to, version_str)>>, r)]

\* for redirect in redirects { .. }: url_matches and unmatched after it.
RECURSIVE FirstLoop(_, _)
FirstLoop(rs, acc) ==
    IF Len(rs) = 0 THEN acc
    ELSE FirstLoop(Tail(rs), FirstLoopStep(acc, Head(rs)))

\* entry k first, the others after it.
MoveToFront(map, k) ==
    <<map[k]>> \o SubSeq(map, 1, k - 1) \o SubSeq(map, k + 1, Len(map))

\* The orders in which a loop may visit a HashMap. What build returns depends
\* on the entry visited first and on the set of the others only (the lists
\* are sorted at the end), so an order is given by its first entry.
IterOrders(map) ==
    IF Len(map) = 0 THEN {<<>>}
    ELSE {MoveToFront(map, k) : k \in DOMAIN map}

\* Every order of the inner maps of an already ordered outer map.
RECURSIVE InnerOrders(_)
InnerOrders(url_matches) ==
    IF Len(url_matches) = 0 THEN {<<>>}
    ELSE {<<[key |-> Head(url_matches).key, value |-> o]>> \o rest :
              o \in IterOrders(Head(url_matches).value),
              rest \in InnerOrders(Tail(url_matches))}

\* url_matches in every order its loops may visit it in.
HashOrders(url_matches) ==
    UNION {InnerOrders(outer) : outer \in IterOrders(url_matches)}

\* The comparison turned around.
Worse(len, best_len) == len < best_len

\* if redirects.len() > best_redirects.len()
Better(len, best_len) == len > best_len

\* The loop that picks best_to: Some(entry) as <<entry>>, None as <<>>.
RECURSIVE BestTo(_, _)
BestTo(to_maps, best_to) ==
    IF Len(to_maps) = 0 THEN best_to
    ELSE LET e == Head(to_maps)
             next == IF Len(best_to) = 1
                     THEN (IF Better(Len(e.value), Len(best_to[1].value))
                           THEN <<e>> ELSE best_to)
                     ELSE <<e>>
         IN  BestTo(Tail(to_maps), next)

\* Leftovers without the remove: the winning sub-group stays in to_maps.
RECURSIVE LeftoversKeepBest(_, _)
LeftoversKeepBest(to_maps, best_to) ==
    IF Len(to_maps) = 0 THEN <<>>
    ELSE Head(to_maps).value \o LeftoversKeepBest(Tail(to_maps), best_to)

\* to_maps.remove(&ktc); for (_, redirects) in to_maps { unmatched.extend(..) }
RECURSIVE Leftovers(_, _)
Leftovers(to_maps, best_to) ==
    IF Len(to_maps) = 0 THEN <<>>
    ELSE (IF Len(best_to) = 1 /\ Head(to_maps).key = best_to[1].key
          THEN <<>> ELSE Head(to_maps).value)
         \o Leftovers(Tail(to_maps), best_to)

\* let wildcard = Wildcard { .. }
MakeWildcard(fk, best) ==
    [kind |-> best.key[1], from_components |-> fk,
     to_components |-> best.key[2], matching_redirects |-> best.value]

\* for ((from_start, from_end), mut to_maps) in url_matches { .. }
RECURSIVE SecondLoop(_, _)
SecondLoop(url_matches, acc) ==
    IF Len(url_matches) = 0 THEN acc
    ELSE LET fk == Head(url_matches).key
             to_maps == Head(url_matches).value
             best_to == BestTo(to_maps, <<>>)
             ws == IF Len(best_to) = 1
                   THEN <<MakeWildcard(fk, best_to[1])>>
                   ELSE <<>>
         IN  SecondLoop(Tail(url_matches),
                        [wildcards |-> acc.wildcards \o ws,
                         unmatched |-> acc.unmatched
                                        \o Leftovers(to_maps, best_to)])

\* unmatched.sort()
RECURSIVE InsertRedirect(_, _)
InsertRedirect(x, sorted) ==
    IF Len(sorted) = 0 THEN <<x>>
    ELSE IF RedirectCmp(x, Head(sorted)) < 0 THEN <<x>> \o sorted
    ELSE <<Head(sorted)>> \o InsertRedirect(x, Tail(sorted))

\* The sort left out.
Unsorted(s) == s

RECURSIVE SortRedirects(_)
SortRedirects(s) ==
    IF Len(s) = 0 THEN <<>>
    ELSE InsertRedirect(s[Len(s)], SortRedirects(SubSeq(s, 1, Len(s) - 1)))

\* wildcards.sort_unstable_by_key(|w| (w.kind, w.from_components))
RECURSIVE InsertWildcard(_, _)
InsertWildcard(x, sorted) ==
    IF Len(sorted) = 0 THEN <<x>>
    ELSE IF WildcardCmp(x, Head(sorted)) < 0 THEN <<x>> \o sorted
    ELSE <<Head(sorted)>> \o InsertWildcard(x, Tail(sorted))

RECURSIVE SortWildcards(_)
SortWildcards(s) ==
    IF Len(s) = 0 THEN <<>>
    ELSE InsertWildcard(s[Len(s)], SortWildcards(SubSeq(s, 1, Len(s) - 1)))

\* The second loop and the two sorts of build, url_matches being visited in
\* the order given.
FinishBuild(first, ordered_matches) ==
    LET looped == SecondLoop(ordered_matches,
                             [wildcards |-> <<>>, unmatched |-> first.unmatched])
    IN  [wildcards |-> SortWildcards(looped.wildcards),
         unmatched |-> SortRedirects(looped.unmatched)]

\* The stores WildcardStore::build may return for a redirect list.
BuildResults(rs) ==
    LET first == FirstLoop(rs, [url_matches |-> <<>>, unmatched |-> <<>>])
    IN  {FinishBuild(first, o) : o \in HashOrders(first.url_matches)}

\* ------------------------------------------------------------------ inputs
\* Version data that follows the common URL pattern: two locations.
UniformVersion(v) ==
    LET vt == SemverToString(v)
    IN  [version |-> v,
         release_url |-> <<"h", "/">> \o vt \o <<"/", "r">>,
         locations |-> <<[target |-> <<"a">>, format |-> <<"z">>,
                          url |-> <<"h", "/">> \o vt \o <<"/", "a">>],
                         [target |-> <<"b">>, format |-> <<"z">>,
                          url |-> <<"h", "/">> \o vt \o <<"/", "b">>]>>]

\* Version data that departs from it: a release URL without the version, one
\* location whose URL holds the version twice.
DeviantVersion(v) ==
    LET vt == SemverToString(v)
    IN  [version |-> v,
         release_url |-> <<"g", "/", "r">>,
         locations |-> <<[target |-> <<"a">>, format |-> <<"z">>,
                          url |-> <<"g", "/">> \o vt \o vt]>>]

MkRange(r, nv, pre, dev) ==
    [range |-> r, is_prerelease |-> pre, latest |-> <<r, nv - 1, 0>>,
     versions |-> [m \in 1..nv |->
                      IF <<r, m - 1, 0>> = dev
                      THEN DeviantVersion(<<r, m - 1, 0>>)
                      ELSE UniformVersion(<<r, m - 1, 0>>)]]

\* A project: ranges 1..nr of nv versions each, range `pre` (0: none) a
\* prerelease range, `latest` (0: None) the latest range, `dev` (<<>>: none)
\* the deviant version.
MkProject(nr, nv, pre, latest, dev) ==
    [latest |-> IF latest = 0 THEN <<>> ELSE <<latest>>,
     ranges |-> [r \in 1..nr |-> MkRange(r, nv, r = pre, dev)]]

Projects ==
    UNION {{MkProject(nr, nv, pre, latest, dev) :
                pre \in {0, 1}, latest \in {0, nr},
                dev \in {<<>>, <<1, 0, 0>>}} :
           nr \in 1..MaxRanges, nv \in 1..MaxVersions}

MkAlias(target, format, alias) ==
    [target |-> target, format |-> format, alias |-> alias]

\* The alias lists: none; one that matches and one whose format does not;
\* one named like the release path; two of the same name.
AliasLists ==
    {<<>>,
     <<MkAlias(<<"a">>, <<"z">>, <<"x">>), MkAlias(<<"a">>, <<"q">>, <<"y">>)>>,
     <<MkAlias(<<"a">>, <<"z">>, Str_release)>>,
     <<MkAlias(<<"a">>, <<"z">>, <<"x">>), MkAlias(<<"b">>, <<"z">>, <<"x">>)>>}

Prefixes == {<<>>, <<"/", "d", "/", "/">>}

Flavors == {Netlify, Cloudflare}

\* The _redirects file before the first run.
OldFile == <<<<"o", "l", "d">>>>

\* ------------------------------------------------------------------- state
VARIABLES
    release_json,   \* the projects of the release tree, in map order
    aliases,        \* the alias list
    flavor,         \* the redirect flavor
    prefix,         \* the prefix argument
    pc,             \* position in generate_redirects
    redirects,      \* the local `redirects`
    wildcards,      \* WildcardStore.wildcards
    unmatched,      \* WildcardStore.unmatched
    out,            \* the local `out`, as a sequence of lines
    file,           \* the content of out_dir/_redirects
    result,         \* what generate_redirects returned
    run,            \* 1 for the first invocation, 2 for the second
    prev_out        \* what the first invocation rendered

vars == <<release_json, aliases, flavor, prefix, pc, redirects, wildcards,
          unmatched, out, file, result, run, prev_out>>

inputs == <<release_json, aliases, flavor, prefix>>

Init ==
    /\ \E project \in Projects, n \in 0..MaxProjects :
           release_json = [i \in 1..n |-> project]
    /\ aliases \in AliasLists
    /\ flavor \in Flavors
    /\ prefix \in Prefixes
    /\ pc = "start"
    /\ redirects = <<>>
    /\ wildcards = <<>>
    /\ unmatched = <<>>
    /\ out = <<>>
    /\ file = OldFile
    /\ result = "none"
    /\ run = 1
    /\ prev_out = <<>>

\* "# Generated by mukti with redirect flavor {:?}\n" and the blank line.
Header(f) ==
    <<<<"# Generated by mukti with redirect flavor ", f>>, <<>>>>

RECURSIVE RedirectLines(_)
RedirectLines(rs) ==
    IF Len(rs) = 0 THEN <<>>
    ELSE <<RedirectLine(Head(rs))>> \o RedirectLines(Tail(rs))

RECURSIVE WildcardLines(_)
WildcardLines(ws) ==
    IF Len(ws) = 0 THEN <<>>
    ELSE <<WildcardLine(Head(ws))>> \o WildcardLines(Tail(ws))

\* The two loops of the Cloudflare arm the other way round.
WildcardsFirstLines(store) ==
    WildcardLines(store.wildcards) \o RedirectLines(store.unmatched)

\* The lines the Cloudflare arm writes for a store.
CloudflareLines(store) ==
    RedirectLines(store.unmatched) \o WildcardLines(store.wildcards)

\* A check that only asks for a project to be there.
NoProject(n) == n = 0

\* release_json.projects.len() != 1
WrongProjectCount(n) == n # 1

\* if release_json.projects.len() != 1 { bail!(..) }
RejectProjects ==
    /\ pc = "start"
    /\ WrongProjectCount(Len(release_json))
    /\ pc' = "failed"
    /\ result' = "InputShapeError"
    /\ UNCHANGED <<inputs, redirects, wildcards, unmatched, out, file, run,
                   prev_out>>

\* The header and the three append_redirect_list loops.
Enumerate ==
    /\ pc = "start"
    /\ ~WrongProjectCount(Len(release_json))
    /\ LET project == release_json[1]
           netlify_prefix == TrimEndMatches(prefix, "/")
       IN  redirects' = EnumerateRedirects(project, aliases, netlify_prefix)
    /\ out' = Header(flavor)
    /\ pc' = "render"
    /\ UNCHANGED <<inputs, wildcards, unmatched, file, result, run, prev_out>>

\* RedirectFlavor::Netlify => write out the redirect list.
RenderNetlify ==
    /\ pc = "render"
    /\ flavor = Netlify
    /\ out' = out \o RedirectLines(redirects)
    /\ pc' = "write"
    /\ UNCHANGED <<inputs, redirects, wildcards, unmatched, file, result, run,
                   prev_out>>

\* RedirectFlavor::Cloudflare => build the store, write unmatched, then the
\* wildcards.
RenderCloudflare ==
    /\ pc = "render"
    /\ flavor = Cloudflare
    /\ \E store \in BuildResults(redirects) :
           /\ wildcards' = store.wildcards
           /\ unmatched' = store.unmatched
           /\ out' = out \o CloudflareLines(store)
    /\ pc' = "write"
    /\ UNCHANGED <<inputs, redirects, file, result, run, prev_out>>

\* AtomicFile::write succeeds: the file is replaced as a whole.
WriteOk ==
    /\ pc = "write"
    /\ file' = out
    /\ result' = "Ok"
    /\ pc' = "done"
    /\ UNCHANGED <<inputs, redirects, wildcards, unmatched, out, run, prev_out>>

\* AtomicFile::write fails: "failed to write _redirects", the file is kept.
WriteFail ==
    /\ pc = "write"
    /\ result' = "IoError"
    /\ pc' = "failed"
    /\ UNCHANGED <<inputs, redirects, wildcards, unmatched, out, file, run,
                   prev_out>>

\* generate_redirects is called again with the same arguments.
Rerun ==
    /\ pc = "done"
    /\ run = 1
    /\ run' = 2
    /\ prev_out' = out
    /\ pc' = "start"
    /\ redirects' = <<>>
    /\ wildcards' = <<>>
    /\ unmatched' = <<>>
    /\ out' = <<>>
    /\ result' = "none"
    /\ UNCHANGED <<inputs, file>>

Next ==
    \/ RejectProjects
    \/ Enumerate
    \/ RenderNetlify
    \/ RenderCloudflare
    \/ WriteOk
    \/ WriteFail
    \/ Rerun

Spec == Init /\ [][Next]_vars

\* --------------------------------------------- WildcardStore::build alone
\* A redirect of the pool: /{version}/r -> to, of the given kind.
PoolRedirect(v, kind, to) ==
    [version |-> Version(v), kind |-> kind,
     from |-> <<"/">> \o SemverToString(v) \o <<"/", "r">>,
     to |-> to, code |-> 302]

\* The redirects build is tried on: three versions of one shape, one of them
\* also with a destination of another shape and one also as an Alias; a
\* source and destination that hold the version twice; a Version redirect
\* whose source does not hold its version; a Latest and a Range redirect.
Pool ==
    {PoolRedirect(v, Location, <<"h", "/">> \o SemverToString(v)) :
         v \in {<<1, 0, 0>>, <<1, 1, 0>>, <<2, 0, 0>>}}
    \cup {PoolRedirect(<<1, 0, 0>>, Location, <<"g">>),
          PoolRedirect(<<1, 1, 0>>, Alias, <<"h", "/">> \o SemverToString(<<1, 1, 0>>)),
          [version |-> Version(<<2, 0, 0>>), kind |-> Release,
           from |-> SemverToString(<<2, 0, 0>>) \o SemverToString(<<2, 0, 0>>),
           to |-> SemverToString(<<2, 0, 0>>) \o SemverToString(<<2, 0, 0>>),
           code |-> 302],
          [version |-> Version(<<1, 0, 0>>), kind |-> Release,
           from |-> <<"/", "x">>, to |-> <<"h", "/">> \o SemverToString(<<1, 0, 0>>),
           code |-> 302],
          [version |-> Latest, kind |-> Alias,
           from |-> <<"/">> \o Str_latest \o <<"/", "r">>, to |-> <<"g">>,
           code |-> 302],
          [version |-> Range(1), kind |-> Release,
           from |-> <<"/", "1", "/", "r">>, to |-> <<"g">>, code |-> 302]}

RedirectLists == UNION {[1..n -> Pool] : n \in 0..MaxLen}

InitBuild ==
    /\ redirects \in RedirectLists
    /\ pc = "build"
    /\ release_json = <<>>
    /\ aliases = <<>>
    /\ flavor = Cloudflare
    /\ prefix = <<>>
    /\ wildcards = <<>>
    /\ unmatched = <<>>
    /\ out = <<>>
    /\ file = OldFile
    /\ result = "none"
    /\ run = 1
    /\ prev_out = <<>>

\* WildcardStore::build(&redirects)
BuildStore ==
    /\ pc = "build"
    /\ \E store \in BuildResults(redirects) :
           /\ wildcards' = store.wildcards
           /\ unmatched' = store.unmatched
    /\ pc' = "built"
    /\ UNCHANGED <<inputs, redirects, out, file, result, run, prev_out>>

NextBuild == BuildStore

SpecBuild == InitBuild /\ [][NextBuild]_vars

\* ------------------------------------------------------------- properties
\* A store has been built from `redirects`.
HasStore ==
    \/ pc = "built"
    \/ flavor = Cloudflare /\ pc \in {"write", "done"}

Elems(seq) == {seq[i] : i \in DOMAIN seq}

Count(seq, x) == Cardinality({i \in DOMAIN seq : seq[i] = x})

\* The matching_redirects of every wildcard, one after the other.
RECURSIVE AllMatching(_)
AllMatching(ws) ==
    IF Len(ws) = 0 THEN <<>>
    ELSE Head(ws).matching_redirects \o AllMatching(Tail(ws))

\* The version text of r occurs in r.from.
HoldsVersion(r) == Find(r.from, VersionToString(r.version)) # 0

\* r is a candidate for compression, with its two shapes.
Candidate(r) == r.version.tag = 2 /\ HoldsVersion(r)

FromShape(r) ==
    LET vt == VersionToString(r.version)
        i == Find(r.from, vt)
    IN  <<SubSeq(r.from, 1, i - 1), SubSeq(r.from, i + Len(vt), Len(r.from))>>

ToShape(r) == <<r.kind, Split(r.to, VersionToString(r.version))>>

\* The members of sub-group ts of shape fs, in input order.
Members(fs, ts) ==
    SelectSeq(redirects,
              LAMBDA r : Candidate(r) /\ FromShape(r) = fs /\ ToShape(r) = ts)

\* C2: unmatched together with the matching_redirects of every wildcard is
\* the input list as a multiset: no redirect is lost or duplicated.
C2_Partition ==
    HasStore =>
        LET matching == AllMatching(wildcards)
        IN  \A x \in Elems(redirects) \cup Elems(unmatched) \cup Elems(matching) :
                Count(redirects, x) = Count(unmatched, x) + Count(matching, x)

\* C2 witness: a list with a repeated redirect was split between a wildcard
\* and the literals.
C2_Witness ==
    /\ pc = "built"
    /\ Len(wildcards) >= 1
    /\ Len(unmatched) >= 1
    /\ \E x \in Elems(redirects) : Count(redirects, x) = 2

\* C3: substituting the version of a matching redirect into its wildcard
\* gives back the redirect's from and to, and the kinds agree.
C3_DestinationPreserved ==
    HasStore =>
        \A i \in DOMAIN wildcards :
            LET w == wildcards[i]
            IN  \A j \in DOMAIN w.matching_redirects :
                    LET r == w.matching_redirects[j]
                        v == VersionToString(r.version)
                    IN  /\ w.from_components[1] \o v \o w.from_components[2] = r.from
                        /\ Join(w.to_components, v) = r.to
                        /\ w.kind = r.kind
                        /\ Join(Split(WildcardLine(w), VERSION_PLACEHOLDER), v)
                               = RedirectLine(r)

\* C3 witness: a wildcard whose destination holds the version twice, and one
\* that matches two redirects.
C3_Witness ==
    /\ pc = "built"
    /\ \E i \in DOMAIN wildcards :
           /\ Len(wildcards[i].to_components) = 3
           /\ Len(wildcards[i].matching_redirects) >= 1
    /\ \E i \in DOMAIN wildcards : Len(wildcards[i].matching_redirects) >= 2

\* C8: every from shape gets exactly one wildcard; it matches all members of
\* one sub-group that is at least as large as every other, and the members of
\* the other sub-groups are literals.
C8_DominantPattern ==
    HasStore =>
        LET cands == {r \in Elems(redirects) : Candidate(r)}
            shapes == {FromShape(r) : r \in cands}
        IN  /\ Len(wildcards) = Cardinality(shapes)
            /\ \A fs \in shapes :
                   LET ws == {i \in DOMAIN wildcards :
                                  wildcards[i].from_components = fs}
                       subs == {ToShape(r) : r \in {c \in cands : FromShape(c) = fs}}
                   IN  /\ Cardinality(ws) = 1
                       /\ \A i \in ws :
                              LET w == wildcards[i]
                                  won == <<w.kind, w.to_components>>
                              IN  /\ won \in subs
                                  /\ w.matching_redirects = Members(fs, won)
                                  /\ \A j \in DOMAIN w.matching_redirects :
                                         Count(unmatched, w.matching_redirects[j]) = 0
                                  /\ \A ts \in subs :
                                         /\ Len(Members(fs, ts)) <= Len(Members(fs, won))
                                         /\ ts # won =>
                                                \A j \in DOMAIN Members(fs, ts) :
                                                    Count(unmatched, Members(fs, ts)[j])
                                                        = Count(redirects, Members(fs, ts)[j])

\* C8 witness: a shape with a sub-group of two and a sub-group of one.
C8_Witness ==
    /\ pc = "built"
    /\ \E i \in DOMAIN wildcards :
           /\ Len(wildcards[i].matching_redirects) = 2
           /\ \E j \in DOMAIN unmatched :
                  /\ Candidate(unmatched[j])
                  /\ FromShape(unmatched[j]) = wildcards[i].from_components

\* C9: Latest and Range redirects, and Version redirects whose from does not
\* hold the version text, are literals and match no wildcard; every redirect
\* a wildcard matches is a Version redirect whose from holds its version.
C9_Eligibility ==
    HasStore =>
        LET matching == AllMatching(wildcards)
        IN  /\ \A i \in DOMAIN redirects :
                   LET r == redirects[i]
                   IN  (r.version.tag \in {0, 1} \/ ~HoldsVersion(r)) =>
                           /\ Count(unmatched, r) = Count(redirects, r)
                           /\ Count(matching, r) = 0
            /\ \A j \in DOMAIN matching :
                   matching[j].version.tag = 2 /\ HoldsVersion(matching[j])

\* C9 witness: a Latest or Range redirect and a Version redirect whose from
\* lacks its version were given, and a wildcard was emitted as well.
C9_Witness ==
    /\ pc = "built"
    /\ Len(wildcards) >= 1
    /\ \E i \in DOMAIN redirects : redirects[i].version.tag \in {0, 1}
    /\ \E i \in DOMAIN redirects :
           redirects[i].version.tag = 2 /\ ~HoldsVersion(redirects[i])

\* (kind, from_components) of a is not above that of b.
WildcardKeyLeq(a, b) ==
    \/ a.kind < b.kind
    \/ /\ a.kind = b.kind
       /\ \/ StrCmp(a.from_components[1], b.from_components[1]) < 0
          \/ /\ a.from_components[1] = b.from_components[1]
             /\ StrCmp(a.from_components[2], b.from_components[2]) <= 0

\* (version, kind, from) of a is not above that of b, the version tags being
\* ordered Latest < Range < Version.
NaturalLeq(a, b) ==
    \/ a.version.tag < b.version.tag
    \/ /\ a.version.tag = b.version.tag
       /\ \/ NumCmp(a.version.n, b.version.n) < 0
          \/ /\ a.version.n = b.version.n
             /\ \/ a.kind < b.kind
                \/ a.kind = b.kind /\ StrCmp(a.from, b.from) <= 0

\* C10: the wildcard list is sorted by (kind, from_components) and the
\* unmatched list by (version, kind, from), whatever the order of the input.
C10_Sorted ==
    HasStore =>
        /\ \A i \in 1..(Len(wildcards) - 1) :
               WildcardKeyLeq(wildcards[i], wildcards[i + 1])
        /\ \A i \in 1..(Len(unmatched) - 1) :
               NaturalLeq(unmatched[i], unmatched[i + 1])

\* C10 witness: the input listed a later literal before an earlier one, and
\* its first redirect is matched by the last of several wildcards.
C10_Witness ==
    /\ pc = "built"
    /\ Len(wildcards) >= 2
    /\ Count(wildcards[Len(wildcards)].matching_redirects, redirects[1]) = 1
    /\ LET fu == FirstLoop(redirects, [url_matches |-> <<>>,
                                       unmatched |-> <<>>]).unmatched
       IN  /\ Len(fu) >= 2
           /\ ~NaturalLeq(fu[1], fu[2])
           /\ Len(unmatched) = Len(fu)

\* The redirect list of the only project has been built.
Enumerated == Len(release_json) = 1 /\ pc \in {"render", "write", "done"}

\* The redirects tagged t, in the order of the list.
Tagged(t) == SelectSeq(redirects, LAMBDA r : r.version = t)

OfKind(rs, kind) == SelectSeq(rs, LAMBDA r : r.kind = kind)

\* The redirects tagged t are the three-tier expansion of version data vd
\* rooted at {prefix}/{t}/.
ExpansionOf(t, vd) ==
    LET root == TrimEndMatches(prefix, "/") \o <<"/">> \o VersionToString(t)
                    \o <<"/">>
        tagged == Tagged(t)
        pairs == {<<i, j>> \in (DOMAIN vd.locations) \X (DOMAIN aliases) :
                      /\ aliases[j].target = vd.locations[i].target
                      /\ aliases[j].format = vd.locations[i].format}
    IN  /\ OfKind(tagged, Release)
            = <<[version |-> t, kind |-> Release, from |-> root \o Str_release,
                 to |-> vd.release_url, code |-> 302]>>
        /\ Len(OfKind(tagged, Location)) = Len(vd.locations)
        /\ \A i \in DOMAIN vd.locations :
               [version |-> t, kind |-> Location,
                from |-> root \o vd.locations[i].target \o <<".">>
                           \o vd.locations[i].format,
                to |-> vd.locations[i].url, code |-> 302]
                   \in Elems(tagged)
        /\ Len(OfKind(tagged, Alias)) = Cardinality(pairs)
        /\ \A pr \in pairs :
               [version |-> t, kind |-> Alias,
                from |-> root \o aliases[pr[2]].alias,
                to |-> vd.locations[pr[1]].url, code |-> 302]
                   \in Elems(tagged)

\* The data of the version a range names as its latest.
LatestOf(data) ==
    CHOOSE vd \in Elems(data.versions) : vd.version = data.latest

\* C7: Range redirects exist exactly for the ranges that are not prerelease
\* and expand the range's latest version; Version redirects expand every
\* version of every range; Latest redirects exist iff the project declares a
\* latest range.
C7_Enumeration ==
    Enumerated =>
        LET project == release_json[1]
        IN  /\ \A i \in DOMAIN project.ranges :
                   LET data == project.ranges[i]
                   IN  /\ ~data.is_prerelease =>
                              ExpansionOf(Range(data.range), LatestOf(data))
                       /\ data.is_prerelease => Tagged(Range(data.range)) = <<>>
                       /\ \A k \in DOMAIN data.versions :
                              ExpansionOf(Version(data.versions[k].version),
                                          data.versions[k])
            /\ IF Len(project.latest) = 1
               THEN \E i \in DOMAIN project.ranges :
                        /\ project.ranges[i].range = project.latest[1]
                        /\ ExpansionOf(Latest, LatestOf(project.ranges[i]))
               ELSE Tagged(Latest) = <<>>
            /\ \A r \in Elems(redirects) :
                   \/ r.version = Latest
                   \/ \E i \in DOMAIN project.ranges :
                          \/ r.version = Range(project.ranges[i].range)
                          \/ \E k \in DOMAIN project.ranges[i].versions :
                                 r.version
                                     = Version(project.ranges[i].versions[k].version)

\* C7 witness: a prerelease range next to a released one, a latest range, an
\* alias that matches and one that does not.
C7_Witness ==
    /\ Enumerated
    /\ Len(release_json[1].latest) = 1
    /\ \E i, j \in DOMAIN release_json[1].ranges :
           /\ release_json[1].ranges[i].is_prerelease
           /\ ~release_json[1].ranges[j].is_prerelease
           /\ Len(release_json[1].ranges[j].versions) >= 2
    /\ Len(aliases) = 2
    /\ \E r \in Elems(redirects) : r.kind = Alias
    /\ \E r \in Elems(redirects) : r.version.tag = 1

\* A line of the output that holds the placeholder.
IsWildcardLine(line) == Find(line, VERSION_PLACEHOLDER) # 0

\* The rule lines of out: those after the header and the blank line.
RuleLines == 3..Len(out)

\* C5: in Cloudflare output every literal line comes before every wildcard
\* line.
C5_LiteralsFirst ==
    (flavor = Cloudflare /\ pc \in {"write", "done"}) =>
        LET wl == {i \in RuleLines : IsWildcardLine(out[i])}
        IN  /\ Cardinality(wl) = Len(wildcards)
            /\ Cardinality(RuleLines \ wl) = Len(unmatched)
            /\ \A i \in wl : \A j \in RuleLines \ wl : j < i
            /\ pc = "done" => file = out

\* C5 witness: Cloudflare output with literal and wildcard lines written.
C5_Witness ==
    /\ flavor = Cloudflare
    /\ pc = "done"
    /\ Len(unmatched) >= 2
    /\ Len(wildcards) >= 2

\* C6: with zero or several projects generate_redirects fails before it
\* enumerates anything and the file stays as it was; with one project it
\* raises no input-shape error.
C6_ProjectCount ==
    /\ Len(release_json) # 1 =>
           /\ pc \in {"start", "failed"}
           /\ pc = "failed" => result = "InputShapeError"
           /\ redirects = <<>>
           /\ out = <<>>
           /\ file = OldFile
    /\ Len(release_json) = 1 => result # "InputShapeError"

\* C6 witness: a tree of two projects was rejected.
C6_Witness ==
    /\ Len(release_json) = 2
    /\ pc = "failed"
    /\ result = "InputShapeError"

\* The destination of the first literal rule for path: <<to>>, or <<>>.
FirstLiteral(rules, path) ==
    LET idx == {i \in DOMAIN rules : rules[i].from = path}
    IN  IF idx = {} THEN <<>>
        ELSE <<rules[CHOOSE i \in idx : \A j \in idx : i <= j].to>>

\* What :version stands for when wildcard w matches path: one non-empty path
\* segment between from_start and from_end; <<>> when w does not match.
Placeholder(w, path) ==
    LET start == w.from_components[1]
        end == w.from_components[2]
        n == Len(path) - Len(start) - Len(end)
        mid == SubSeq(path, Len(start) + 1, Len(start) + n)
    IN  IF /\ n >= 1
           /\ SubSeq(path, 1, Len(start)) = start
           /\ SubSeq(path, Len(start) + n + 1, Len(path)) = end
           /\ \A i \in DOMAIN mid : mid[i] # "/"
        THEN <<mid>> ELSE <<>>

\* The destination of the first wildcard rule that matches path.
FirstWildcard(ws, path) ==
    LET idx == {i \in DOMAIN ws : Placeholder(ws[i], path) # <<>>}
    IN  IF idx = {} THEN <<>>
        ELSE LET i == CHOOSE i \in idx : \A j \in idx : i <= j
             IN  <<Join(ws[i].to_components, Placeholder(ws[i], path)[1])>>

\* First match in the plain output: the redirect list as enumerated.
ResolvePlain(path) == FirstLiteral(redirects, path)

\* First match in the compressed output: the literals, then the wildcards.
ResolveCompressed(path) ==
    IF FirstLiteral(unmatched, path) # <<>> THEN FirstLiteral(unmatched, path)
    ELSE FirstWildcard(wildcards, path)

\* C1: every enumerated source path resolves in the compressed output to the
\* destination it resolves to in the plain output.
C1_SameRouting ==
    (flavor = Cloudflare /\ pc \in {"write", "done"}) =>
        \A r \in Elems(redirects) :
            ResolveCompressed(r.from) = ResolvePlain(r.from)

\* C4: a second run on the same inputs renders the same text as the first.
C4_Idempotent ==
    (run = 2 /\ pc = "done") => out = prev_out

====
